---- MODULE Spec2Model ----
(***************************************************************************)
(* Model of fineregr (src/src/main.rs): Benchmarker::run walks the         *)
(* revisions of a repository, and for every (benchmark, revision) pair     *)
(* without a result file runs the preparation commands and hyperfine,      *)
(* writes a failure record when either fails, and re-renders the plot      *)
(* from every result file on disk.                                         *)
(*                                                                         *)
(* The file system, the external commands (git, preparation commands,      *)
(* hyperfine) and the operator interrupting the process are the            *)
(* environment: every outcome they can produce is a nondeterministic       *)
(* choice.  The repository (revision list and metadata) is fixed.          *)
(***************************************************************************)
EXTENDS Naturals, Sequences, FiniteSets

(* ---------------------------- bounds ----------------------------------- *)

\* number of revisions `git rev-list main` prints
NumRevs == 2
\* largest number of iterations of the inner loop of run() in one run
MaxIters == 4
\* largest number of timing samples hyperfine reports
MaxSamples == 2

(* ------------------------- the repository ------------------------------ *)

RevName(i) == <<"rev", i>>

\* stdout of `git rev-list main`, newest first
RevList == [i \in 1..NumRevs |-> RevName(i)]

Revs == {RevList[i] : i \in 1..NumRevs}

\* stdout of `git log --format=%B -n 1 sha`
commit_message(sha) == <<"msg", sha>>

\* stdout of `git log --format=%ci -n 1 sha`
commit_date(sha) == <<"date", sha>>

(* ------------------------- configuration ------------------------------- *)

\* Option<T>: None is the empty sequence, Some(x) is <<x>>
None == <<>>

Some(x) == <<x>>

BenchCmds == {"b1", "b2"}

\* the cap not applied
Take_all(list, n) == list

\* .take(num_commits.unwrap_or(usize::MAX))
Take(list, n) ==
    IF n = None THEN list
    ELSE SubSeq(list, 1, IF n[1] < Len(list) THEN n[1] ELSE Len(list))

\* the configurations explored: benchmarks (with a repeated command), no
\* preparation command or two, and the optional num_commits, below the
\* number of revisions and, in one configuration, above it
Configs ==
    { c \in [ prepare    : {<<>>, <<"p1", "p2">>},
              benchmarks : {<<"b1">>, <<"b1", "b2">>, <<"b1", "b1">>},
              num_commits : {None} \cup {Some(n) : n \in 0..(NumRevs - 1)} ] :
        Len(c.benchmarks) * Len(Take(RevList, c.num_commits)) <= MaxIters }
    \cup {[prepare |-> <<>>, benchmarks |-> <<"b1">>, num_commits |-> Some(NumRevs + 1)]}

\* a digest that is the same for every command
Sha256Hex_const(bench) == <<"sha256", "b1">>

\* format!("{:x}", Sha256(bench)): a deterministic, collision-free directory name
Sha256Hex(bench) == <<"sha256", bench>>

BenchIds == {Sha256Hex(b) : b \in BenchCmds}

\* a result path results/<bench_sha>/<sha>.json
Pairs == BenchIds \X Revs

(* --------------------------- file contents ----------------------------- *)

Absent == [kind |-> "absent"]

\* a file that exists with no bytes (after File::create, before write!)
Empty == [kind |-> "empty"]

\* hyperfine's --export-json document
SuccessRecord(bench, times) ==
    [kind |-> "json", results |-> <<[command |-> bench, times |-> times]>>]

\* the json! document of run()
FailureRecord(bench, sha) ==
    [kind |-> "json",
     results |-> <<[command |-> bench, git_sha |-> sha,
                    git_msg |-> commit_message(sha),
                    git_date |-> commit_date(sha)]>>]

SampleSets == {[i \in 1..n |-> i] : n \in 1..MaxSamples}

Contents ==
    {Absent, Empty}
    \cup {SuccessRecord(b, t) : b \in BenchCmds, t \in SampleSets}
    \cup {FailureRecord(b, s) : b \in BenchCmds, s \in Revs}

(* ------------------------------ plot ----------------------------------- *)

\* serde_json::from_reader::<_, ResultFile>: the fields command and times of
\* every entry are kept, every other field is dropped, a missing times is None;
\* a file that is no JSON document fails to deserialize
ResultEntry(e) ==
    [command |-> e.command,
     times |-> IF "times" \in DOMAIN e THEN Some(e.times) ELSE None]

Deserialize(content) ==
    IF content.kind = "json"
    THEN [ok |-> TRUE,
          results |-> [i \in DOMAIN content.results |-> ResultEntry(content.results[i])]]
    ELSE [ok |-> FALSE, results |-> <<>>]

PlotData(git_sha, command, time) ==
    [git_sha |-> git_sha, git_msg |-> commit_message(git_sha),
     git_date |-> commit_date(git_sha), command |-> command, time |-> time]

\* one row for an entry whatever the number of its samples
EntryRows_first(git_sha, res) ==
    IF res.times # None
    THEN <<PlotData(git_sha, res.command, Some(res.times[1][1]))>>
    ELSE <<PlotData(git_sha, res.command, None)>>

\* the rows pushed for one entry of a result file
EntryRows(git_sha, res) ==
    IF res.times # None
    THEN [i \in 1..Len(res.times[1]) |-> PlotData(git_sha, res.command, Some(res.times[1][i]))]
    ELSE <<PlotData(git_sha, res.command, None)>>

RECURSIVE ResultsRows(_, _, _)
ResultsRows(git_sha, results, i) ==
    IF i > Len(results) THEN <<>>
    ELSE EntryRows(git_sha, results[i]) \o ResultsRows(git_sha, results, i + 1)

\* the rows pushed for the file at path p (git_sha is its file name)
FileRows(p, content) ==
    LET rf == Deserialize(content)
    IN IF rf.ok THEN ResultsRows(p[2], rf.results, 1) ELSE <<>>

BenchOrder == <<"b1", "b2">>

NumPaths == Len(BenchOrder) * NumRevs

\* the k-th path in the order WalkDir lists the directory tree
PathAt(k) ==
    <<Sha256Hex(BenchOrder[((k - 1) \div NumRevs) + 1]), RevList[((k - 1) % NumRevs) + 1]>>

RECURSIVE WalkRows(_, _)
WalkRows(fsys, k) ==
    IF k > NumPaths THEN <<>>
    ELSE (IF fsys[PathAt(k)] # Absent THEN FileRows(PathAt(k), fsys[PathAt(k)]) ELSE <<>>)
         \o WalkRows(fsys, k + 1)

\* plotdata at the end of the loop of plot()
PlotRows(fsys) == WalkRows(fsys, 1)

(* ------------------------------ state ---------------------------------- *)

VARIABLES
    cfg,        \* the Benchmarker read from the configuration file
    pc,         \* position of the process in run()
    commits,    \* the revisions the outer loop iterates over
    ri,         \* index of the revision being processed
    bi,         \* index of the benchmark being processed
    pk,         \* index of the preparation command run_prepare is at
    success,    \* the local `success` of run()
    caught,     \* the Err(e) of run_prepare() that run() printed for this pair
    err,        \* the error run() returned with: <<operation, kind>>
    repoDir,    \* repo_dir is a directory
    workdir,    \* the revision checked out in repo_dir
    outDir,     \* results/ is a directory
    dirs,       \* the benchmark directories under results/
    fs,         \* content of every result path
    html,       \* results/index.html has been written
    plotdata,   \* the rows of the last plot() that completed
    startFs,    \* fs when the current run started
    prepInv,    \* pairs a preparation command was spawned for, this run
    benchInv,   \* pairs hyperfine was spawned for, this run
    benchZero,  \* pairs hyperfine exited with status zero for, this run
    gitInv,     \* the git subcommands spawned, this run
    visited,    \* revisions checked out, this run
    prepZero,   \* a preparation command exited with status zero, this run
    prevEnd,    \* how the previous run ended: done, failed, killed; none if no run
    prevPlot    \* plotdata when the previous run ended

ctl == <<pc, commits, ri, bi, pk, success, caught, err>>

disk == <<repoDir, workdir, outDir, dirs, fs, html>>

hist == <<startFs, prepInv, benchInv, benchZero, gitInv, visited, prepZero, prevEnd, prevPlot>>

vars == <<cfg, ctl, disk, plotdata, hist>>

Terminal == {"done", "failed", "killed"}

\* what a `.spawn()?.wait()?` can come back with
Outcomes == {"ok", "nonzero", "spawn_err"}

\* the benchmark command and the revision the loops are at
Bench == cfg.benchmarks[bi]

Sha == commits[ri]

\* json_file of the current iteration
Cur == <<Sha256Hex(Bench), Sha>>

NoErr == <<"none", "none">>

Init ==
    /\ cfg \in Configs
    /\ pc = "clone_repo"
    /\ commits = <<>>
    /\ ri = 1
    /\ bi = 1
    /\ pk = 1
    /\ success = TRUE
    /\ caught = NoErr
    /\ err = NoErr
    /\ repoDir = FALSE
    /\ workdir = <<"main", 0>>
    /\ outDir = FALSE
    /\ dirs = {}
    /\ fs = [p \in Pairs |-> Absent]
    /\ html = FALSE
    /\ plotdata = <<>>
    /\ startFs = [p \in Pairs |-> Absent]
    /\ prepInv = {}
    /\ benchInv = {}
    /\ benchZero = {}
    /\ gitInv = {}
    /\ visited = {}
    /\ prepZero = FALSE
    /\ prevEnd = "none"
    /\ prevPlot = <<>>

\* `?` on an Err: run() returns the error
Fail(where, what) ==
    /\ pc' = "failed"
    /\ err' = <<where, what>>

(* ------------------------------ run() ---------------------------------- *)

\* clone_repo(): checkout main and pull when repo_dir is a directory, clone
\* otherwise; the exit status of git is not looked at
clone_repo ==
    /\ pc = "clone_repo"
    /\ gitInv' = gitInv \cup (IF repoDir THEN {"checkout", "pull"} ELSE {"clone"})
    /\ \E o \in Outcomes :
        IF o = "spawn_err"
        THEN /\ Fail("git", "spawn_err")
             /\ UNCHANGED <<repoDir, workdir>>
        ELSE /\ pc' = "out_dir"
             /\ repoDir' = (repoDir \/ o = "ok")
             /\ workdir' = IF o = "ok" THEN <<"main", 0>> ELSE workdir
             /\ UNCHANGED err
    /\ UNCHANGED <<cfg, commits, ri, bi, pk, success, caught, outDir, dirs, fs, html,
                   plotdata, startFs, prepInv, benchInv, benchZero, visited, prepZero, prevEnd,
                   prevPlot>>

\* the error of a file system call printed, and the pair given up
AfterIoErr_skip(op) == "plot"

\* where run() goes when a file system call returns Err: `?` returns it
AfterIoErr(op) == "failed"

\* create_dir_all(results) unless it is a directory
out_dir ==
    /\ pc = "out_dir"
    /\ \/ /\ pc' = "get_commits"
          /\ outDir' = TRUE
          /\ UNCHANGED err
       \/ /\ ~outDir
          /\ Fail("create_dir_all", "io_err")
          /\ UNCHANGED outDir
    /\ UNCHANGED <<cfg, commits, ri, bi, pk, success, caught, repoDir, workdir, dirs, fs,
                   html, plotdata, hist>>

\* a run() that returns Ok(()) right after the loops
AfterLoops_noplot == "done"

\* where run() goes when the loop over the commits is over: to the
\* self.plot(&out_dir)? that precedes Ok(())
AfterLoops == "final_plot"

\* get_commits() and the head of the outer loop; git cannot be spawned in a
\* current_dir that does not exist
get_commits ==
    /\ pc = "get_commits"
    /\ gitInv' = gitInv \cup {"rev-list"}
    /\ \/ /\ repoDir
          /\ commits' = Take(RevList, cfg.num_commits)
          /\ ri' = 1
          /\ pc' = IF commits' = <<>> THEN AfterLoops ELSE "checkout"
          /\ UNCHANGED err
       \/ /\ Fail("git", "spawn_err")
          /\ UNCHANGED <<commits, ri>>
    /\ UNCHANGED <<cfg, bi, pk, success, caught, disk, plotdata, startFs, prepInv,
                   benchInv, benchZero, visited, prepZero, prevEnd, prevPlot>>

\* checkout(sha); the exit status of git is not looked at
checkout ==
    /\ pc = "checkout"
    /\ gitInv' = gitInv \cup {"checkout"}
    /\ \E o \in Outcomes :
        IF o = "spawn_err"
        THEN /\ Fail("git", "spawn_err")
             /\ UNCHANGED <<bi, workdir, visited>>
        ELSE /\ workdir' = IF o = "ok" THEN Sha ELSE workdir
             /\ visited' = visited \cup {Sha}
             /\ bi' = 1
             /\ pc' = "bench_start"
             /\ UNCHANGED err
    /\ UNCHANGED <<cfg, commits, ri, pk, success, caught, repoDir, outDir, dirs, fs, html,
                   plotdata, startFs, prepInv, benchInv, benchZero, prepZero, prevEnd, prevPlot>>

\* a cache check that takes a Failure record for a miss
is_file_retry(p) == fs[p] # Absent /\ ~(fs[p].kind = "json" /\ "times" \notin DOMAIN fs[p].results[1])

\* json_file.is_file()
is_file(p) == fs[p] # Absent

\* a run() without the cache check
AfterCheck_nocache ==
    IF Len(cfg.prepare) = 0 THEN "hyperfine" ELSE "prepare"

\* where run() goes after the cache check of the current pair
AfterCheck ==
    IF is_file(Cur) THEN "plot"
    ELSE IF Len(cfg.prepare) = 0 THEN "hyperfine" ELSE "prepare"

\* where run() goes after the plot() of the inner loop
AfterPlot ==
    IF bi < Len(cfg.benchmarks) THEN "bench_start"
    ELSE IF ri < Len(commits) THEN "checkout" ELSE AfterLoops

\* a run() that drops the error of the plot() of the inner loop
AfterPlotErr_continue == AfterPlot

\* where run() goes when the plot() of the inner loop returns Err: the `?`
\* returns it
AfterPlotErr == "failed"

\* the loop indices when the current iteration of the inner loop is over
NextIter ==
    /\ bi' = IF bi < Len(cfg.benchmarks) THEN bi + 1 ELSE bi
    /\ ri' = IF bi < Len(cfg.benchmarks) \/ ri >= Len(commits) THEN ri ELSE ri + 1

\* head of the inner loop: the benchmark directory is created unless it
\* exists, then the result file is looked for
bench_start ==
    /\ pc = "bench_start"
    /\ \/ /\ dirs' = dirs \cup {Sha256Hex(Bench)}
          /\ pc' = AfterCheck
          /\ pk' = 1
          /\ success' = TRUE
          /\ caught' = NoErr
          /\ UNCHANGED err
       \/ /\ Sha256Hex(Bench) \notin dirs
          /\ IF AfterIoErr("create_dir") = "failed"
             THEN Fail("create_dir", "io_err")
             ELSE pc' = AfterIoErr("create_dir") /\ UNCHANGED err
          /\ UNCHANGED <<dirs, pk, success, caught>>
    /\ UNCHANGED <<cfg, commits, ri, bi, repoDir, workdir, outDir, fs, html, plotdata,
                   hist>>

\* run_prepare()? in run(): the error of a preparation command is returned
AfterPrepare_abort(o, k) ==
    IF o = "ok"
    THEN (IF k < Len(cfg.prepare) THEN "prepare" ELSE "hyperfine")
    ELSE "failed"

\* no Failure record for a preparation command that failed
AfterPrepare_norecord(o, k) ==
    IF o = "ok"
    THEN (IF k < Len(cfg.prepare) THEN "prepare" ELSE "hyperfine")
    ELSE "plot"

\* a run_prepare() that does not look at the exit status
AfterPrepare_ignore(o, k) ==
    IF k < Len(cfg.prepare) THEN "prepare" ELSE "hyperfine"

\* where run() goes after a preparation command, the k-th, came back with o:
\* run_prepare() returns Err on a spawn error (`?`) and on a non-zero exit
\* (bail!), and run() turns any Err of run_prepare() into success = false
AfterPrepare(o, k) ==
    IF o = "ok"
    THEN (IF k < Len(cfg.prepare) THEN "prepare" ELSE "hyperfine")
    ELSE "failure_meta"

\* one iteration of the loop of run_prepare()
prepare ==
    /\ pc = "prepare"
    /\ prepInv' = prepInv \cup {Cur}
    /\ \E o \in Outcomes :
        /\ prepZero' = (prepZero \/ o = "ok")
        /\ IF AfterPrepare(o, pk) = "failed"
           THEN /\ Fail("prepare", o)
                /\ UNCHANGED <<pk, success, caught>>
           ELSE /\ pc' = AfterPrepare(o, pk)
                /\ pk' = IF o = "ok" THEN pk + 1 ELSE pk
                /\ success' = (o = "ok")
                /\ caught' = IF o = "ok" THEN caught ELSE <<"prepare", o>>
                /\ UNCHANGED err
    /\ UNCHANGED <<cfg, commits, ri, bi, disk, plotdata, startFs, benchInv, benchZero, gitInv,
                   visited, prevEnd, prevPlot>>

\* no Failure record for a hyperfine that exited non-zero
AfterHyperfine_norecord(o) ==
    CASE o = "spawn_err" -> "failed"
      [] o = "ok" -> "plot"
      [] o = "nonzero" -> "plot"

\* .wait()?.success() taken for an error of run()
AfterHyperfine_abort(o) ==
    CASE o = "spawn_err" -> "failed"
      [] o = "ok" -> "plot"
      [] o = "nonzero" -> "failed"

\* where run() goes after hyperfine came back with o: a spawn error is
\* returned (`?`), success = res.success() otherwise
AfterHyperfine(o) ==
    CASE o = "spawn_err" -> "failed"
      [] o = "ok" -> "plot"
      [] o = "nonzero" -> "failure_meta"

\* hyperfine --export-json json_file --warmup 1 bench: exit status zero with
\* the samples exported to json_file; a non-zero exit status with json_file
\* exported or not
hyperfine ==
    /\ pc = "hyperfine"
    /\ benchInv' = benchInv \cup {Cur}
    /\ \E o \in Outcomes :
        /\ benchZero' = IF o = "ok" THEN benchZero \cup {Cur} ELSE benchZero
        /\ \/ /\ o = "ok"
              /\ \E t \in SampleSets : fs' = [fs EXCEPT ![Cur] = SuccessRecord(Bench, t)]
           \/ /\ o = "nonzero"
              /\ fs' = [fs EXCEPT ![Cur] = SuccessRecord(Bench, <<1>>)]
           \/ /\ o # "ok"
              /\ UNCHANGED fs
        /\ IF AfterHyperfine(o) = "failed"
           THEN Fail("hyperfine", o) /\ UNCHANGED success
           ELSE /\ pc' = AfterHyperfine(o)
                /\ success' = (o = "ok")
                /\ UNCHANGED err
    /\ UNCHANGED <<cfg, commits, ri, bi, pk, caught, repoDir, workdir, outDir, dirs, html,
                   plotdata, startFs, prepInv, gitInv, visited, prepZero, prevEnd,
                   prevPlot>>

\* the arguments of json!: commit_message(sha)? and commit_date(sha)?
failure_meta ==
    /\ pc = "failure_meta"
    /\ gitInv' = gitInv \cup {"log"}
    /\ \/ /\ pc' = "create"
          /\ UNCHANGED err
       \/ Fail("git", "spawn_err")
    /\ UNCHANGED <<cfg, commits, ri, bi, pk, success, caught, disk, plotdata, startFs,
                   prepInv, benchInv, benchZero, visited, prepZero, prevEnd, prevPlot>>

\* File::create(json_file)?: the file is created, or truncated if it exists
create ==
    /\ pc = "create"
    /\ \/ /\ fs' = [fs EXCEPT ![Cur] = Empty]
          /\ pc' = "write"
          /\ UNCHANGED err
       \/ /\ IF AfterIoErr("File::create") = "failed"
             THEN Fail("File::create", "io_err")
             ELSE pc' = AfterIoErr("File::create") /\ UNCHANGED err
          /\ UNCHANGED fs
    /\ UNCHANGED <<cfg, commits, ri, bi, pk, success, caught, repoDir, workdir, outDir,
                   dirs, html, plotdata, hist>>

\* a write! that removes the file when it fails
write_cleanup ==
    /\ pc = "write"
    /\ \/ /\ fs' = [fs EXCEPT ![Cur] = FailureRecord(Bench, Sha)]
          /\ pc' = "plot"
          /\ UNCHANGED err
       \/ /\ Fail("write", "io_err")
          /\ fs' = [fs EXCEPT ![Cur] = Absent]
    /\ UNCHANGED <<cfg, commits, ri, bi, pk, success, caught, repoDir, workdir, outDir,
                   dirs, html, plotdata, hist>>

\* write!(f, "{}", json_data)?
write ==
    /\ pc = "write"
    /\ \/ /\ fs' = [fs EXCEPT ![Cur] = FailureRecord(Bench, Sha)]
          /\ pc' = "plot"
          /\ UNCHANGED err
       \/ /\ IF AfterIoErr("write") = "failed"
             THEN Fail("write", "io_err")
             ELSE pc' = AfterIoErr("write") /\ UNCHANGED err
          /\ UNCHANGED fs
    /\ UNCHANGED <<cfg, commits, ri, bi, pk, success, caught, repoDir, workdir, outDir,
                   dirs, html, plotdata, hist>>

\* some result file does not deserialize
Corrupt(fsys) == \E p \in Pairs : fsys[p] # Absent /\ ~Deserialize(fsys[p]).ok

\* serde_json::from_reader(..)? in plot(): the error is returned
DeserializeErrAborts_q == TRUE

\* plot() returns the error of a file that does not deserialize: no, the
\* else branch of `if let Ok(rf)` prints it and the loop goes on
DeserializeErrAborts == FALSE

\* plot() returning Ok: every result file is listed, its commit message and
\* date are fetched with git log, it is deserialized and its rows are
\* pushed; then index.html is written
plot_ok ==
    /\ ~(DeserializeErrAborts /\ Corrupt(fs))
    /\ plotdata' = PlotRows(fs)
    /\ html' = TRUE
    /\ gitInv' = IF \E p \in Pairs : is_file(p) THEN gitInv \cup {"log"} ELSE gitInv
    /\ UNCHANGED err

\* the errors plot() can return
PlotErrs == {"spawn_err", "io_err", "deserialize"}

\* plot() returning Err(what): git log cannot be spawned, or index.html
\* cannot be written
plot_err(what) ==
    /\ \/ /\ what = "spawn_err"
          /\ \E p \in Pairs : is_file(p)
          /\ gitInv' = gitInv \cup {"log"}
       \/ /\ what = "io_err"
          /\ gitInv' = IF \E p \in Pairs : is_file(p) THEN gitInv \cup {"log"} ELSE gitInv
       \/ /\ what = "deserialize"
          /\ DeserializeErrAborts /\ Corrupt(fs)
          /\ gitInv' = gitInv \cup {"log"}
    /\ UNCHANGED <<plotdata, html>>

\* self.plot(&out_dir)? at the end of the inner loop
plot ==
    /\ pc = "plot"
    /\ \/ /\ plot_ok
          /\ pc' = AfterPlot
          /\ NextIter
       \/ \E what \in PlotErrs :
            /\ plot_err(what)
            /\ IF AfterPlotErr = "failed"
               THEN Fail("plot", what) /\ UNCHANGED <<ri, bi>>
               ELSE pc' = AfterPlotErr /\ NextIter /\ UNCHANGED err
    /\ UNCHANGED <<cfg, commits, pk, success, caught, repoDir, workdir, outDir, dirs, fs,
                   startFs, prepInv, benchInv, benchZero, visited, prepZero, prevEnd, prevPlot>>

\* self.plot(&out_dir)? after the loops, then Ok(())
final_plot ==
    /\ pc = "final_plot"
    /\ \/ /\ plot_ok
          /\ pc' = "done"
       \/ \E what \in PlotErrs : plot_err(what) /\ Fail("plot", what)
    /\ UNCHANGED <<cfg, commits, ri, bi, pk, success, caught, repoDir, workdir, outDir,
                   dirs, fs, startFs, prepInv, benchInv, benchZero, visited, prepZero, prevEnd,
                   prevPlot>>

\* main(): the exit status of the process for the pc run() ended at
ExitCode == IF pc = "done" THEN 0 ELSE 1

(* --------------------------- environment ------------------------------- *)

\* the process is killed at any point of run(): its memory is gone, the
\* disk stays as it is
Interrupt ==
    /\ pc \notin Terminal
    /\ pc' = "killed"
    /\ commits' = <<>>
    /\ ri' = 1
    /\ bi' = 1
    /\ pk' = 1
    /\ success' = TRUE
    /\ caught' = NoErr
    /\ plotdata' = <<>>
    /\ prepInv' = {}
    /\ benchInv' = {}
    /\ benchZero' = {}
    /\ gitInv' = {}
    /\ visited' = {}
    /\ prepZero' = FALSE
    /\ UNCHANGED <<cfg, err, disk, startFs, prevEnd, prevPlot>>

\* the program is started again with the same configuration file, in the
\* same current directory, on the same repository
StartRun ==
    /\ pc \in Terminal
    /\ pc' = "clone_repo"
    /\ commits' = <<>>
    /\ ri' = 1
    /\ bi' = 1
    /\ pk' = 1
    /\ success' = TRUE
    /\ caught' = NoErr
    /\ err' = NoErr
    /\ plotdata' = <<>>
    /\ startFs' = fs
    /\ prepInv' = {}
    /\ benchInv' = {}
    /\ benchZero' = {}
    /\ gitInv' = {}
    /\ visited' = {}
    /\ prepZero' = FALSE
    /\ prevEnd' = pc
    /\ prevPlot' = IF pc = "done" THEN plotdata ELSE <<>>
    /\ UNCHANGED <<cfg, disk>>

Next ==
    \/ clone_repo
    \/ out_dir
    \/ get_commits
    \/ checkout
    \/ bench_start
    \/ prepare
    \/ hyperfine
    \/ failure_meta
    \/ create
    \/ write
    \/ plot
    \/ final_plot
    \/ Interrupt
    \/ StartRun

Spec == Init /\ [][Next]_vars

(* ------------------------- claims: vocabulary --------------------------- *)

\* a result file holding a record with timing samples / without
IsSuccess(content) ==
    content.kind = "json" /\ "times" \in DOMAIN content.results[1]

IsFailure(content) ==
    content.kind = "json" /\ "times" \notin DOMAIN content.results[1]

\* the result paths of the (revision, benchmark) pairs run() iterates over
ProcPairs ==
    {<<Sha256Hex(cfg.benchmarks[j]), commits[i]>> :
        i \in 1..Len(commits), j \in 1..Len(cfg.benchmarks)}

\* the pairs a preparation command or hyperfine was spawned for, this run
Invoked == prepInv \cup benchInv

EmptyCache == [p \in Pairs |-> Absent]

\* the pcs at which a preparation command or hyperfine is about to be spawned
InvokePcs == {"prepare", "hyperfine"}

(* ------------------------------- C1 ------------------------------------ *)

\* C1: a preparation command or hyperfine is spawned for a pair only while
\* the pair has no result file, and never for a pair that had a result file
\* (of any content, a Failure record included) when the run started.
CacheHitSkip ==
    /\ pc \in InvokePcs => fs[Cur] = Absent
    /\ \A p \in Invoked : startFs[p] = Absent

\* a later run has skipped a pair whose Failure record an earlier run wrote
CacheHitSkipWitness ==
    /\ pc = "plot"
    /\ IsFailure(startFs[Cur])
    /\ Cur \notin Invoked
    /\ fs[Cur] = startFs[Cur]

(* ------------------------------- C2 ------------------------------------ *)

\* C2 as stated: in a run that follows a run that returned Ok, no subprocess
\* at all is spawned, and the rows of its final plot are those of the
\* previous run.
IdempotenceNoSubprocess ==
    prevEnd = "done" =>
        /\ Invoked = {}
        /\ gitInv = {}
        /\ pc = "done" => plotdata = prevPlot

\* C2 (amended): in a run that follows a run that returned Ok, no
\* preparation command and no hyperfine is spawned (git still is), and the
\* rows of its final plot are those of the previous run.
Idempotence ==
    prevEnd = "done" =>
        /\ Invoked = {}
        /\ pc = "done" => plotdata = prevPlot

\* a second run has returned Ok after a first one that measured and
\* recorded, with the same rows, having spawned git only
IdempotenceWitness ==
    /\ prevEnd = "done"
    /\ pc = "done"
    /\ plotdata # <<>>
    /\ plotdata = prevPlot
    /\ Len(commits) = NumRevs
    /\ gitInv = {"checkout", "pull", "rev-list", "log"}
    /\ \E p \in ProcPairs : IsFailure(fs[p])
    /\ \E p \in ProcPairs : IsSuccess(fs[p])

(* ------------------------------- C3 ------------------------------------ *)

FailureContainment ==
    (Len(cfg.prepare) > 0 /\ ~prepZero /\ startFs = EmptyCache) =>
        /\ benchInv = {}
        /\ pc = "failed" => err[1] # "prepare"
        /\ pc = "done" =>
            /\ visited = {commits[i] : i \in 1..Len(commits)}
            /\ \A p \in ProcPairs : IsFailure(fs[p])

\* a sweep over every revision has returned Ok with every preparation
\* command invocation having exited non-zero
FailureContainmentWitness ==
    /\ Len(cfg.prepare) > 0
    /\ ~prepZero
    /\ startFs = EmptyCache
    /\ pc = "done"
    /\ caught = <<"prepare", "nonzero">>
    /\ Len(commits) = NumRevs
    /\ prepInv = ProcPairs
    /\ Cardinality(ProcPairs) > 1

(* ------------------------------- C5 ------------------------------------ *)

\* the errors that are infrastructure errors
InfraKinds == {"spawn_err", "io_err"}

\* C5: after hyperfine exited non-zero for a pair and the pair is done, the
\* pair holds its Failure record; result files appear only at pairs the run
\* attempted; run() returns an error, and the process exits non-zero, only
\* for a spawn or file system error.
MeasurementErrorsAreData ==
    /\ (pc = "plot" /\ ~success /\ caught = NoErr) =>
        /\ Cur \in benchInv
        /\ fs[Cur] = FailureRecord(Bench, Sha)
    /\ pc # "killed" =>
        \A p \in Pairs : (fs[p] # Absent /\ startFs[p] = Absent) => p \in Invoked
    /\ pc = "failed" => err[2] \in InfraKinds
    /\ (pc \in {"done", "failed"} /\ ExitCode # 0) => err[2] \in InfraKinds
    /\ (pc \in {"done", "failed"} /\ ExitCode = 0) => err = NoErr

\* a run has returned Ok with hyperfine having exited non-zero for two pairs
MeasurementErrorsAreDataWitness ==
    /\ pc = "done"
    /\ ExitCode = 0
    /\ Cardinality({p \in benchInv : IsFailure(fs[p])}) > 1

(* ------------------------------- C6 ------------------------------------ *)

\* C6: a command that cannot be spawned makes run() return the error: run()
\* never goes on, to write a Failure record, with a spawn error caught.
InfraErrorsFatal ==
    caught[2] = "spawn_err" => pc = "failed"

(* ------------------------------- C7 ------------------------------------ *)

\* the file system calls on the benchmark directory and the result file
CacheIoOps == {"create_dir", "File::create", "write"}

\* C7 as stated: run() never returns the error of creating the benchmark
\* directory or of creating or writing the result file.
CacheIoContained ==
    ~(pc = "failed" /\ err[1] \in CacheIoOps)

\* C7 (amended): when the benchmark directory cannot be created, or the
\* result file cannot be created or written, run() returns that error at
\* once, and a run() that has returned an error processes nothing more.
CacheIoAborts ==
    [][ /\ (pc = "bench_start" /\ pc' # "killed" /\ Sha256Hex(Bench) \notin dirs')
            => (pc' = "failed" /\ err' = <<"create_dir", "io_err">>)
        /\ (pc = "create" /\ pc' # "killed" /\ fs'[Cur] # Empty)
            => (pc' = "failed" /\ err' = <<"File::create", "io_err">>)
        /\ (pc = "write" /\ pc' # "killed" /\ fs'[Cur] # FailureRecord(Bench, Sha))
            => (pc' = "failed" /\ err' = <<"write", "io_err">>)
        /\ pc = "failed" => (pc' = "clone_repo" /\ fs' = fs)
      ]_vars

\* run() has returned the error of writing a result file, with pairs of the
\* sweep left that have no result file
CacheIoAbortsWitness ==
    /\ pc = "failed"
    /\ err = <<"write", "io_err">>
    /\ fs[Cur] = Empty
    /\ \E p \in ProcPairs : fs[p] = Absent

(* ------------------------------- C8 ------------------------------------ *)

\* C8: once a result path holds a record, its content never changes.
WriteOnce ==
    [][\A p \in Pairs : fs[p].kind = "json" => fs'[p] = fs[p]]_vars

(* ------------------------------- C9 ------------------------------------ *)

\* the pcs at which result files are read: the cache check and plot()
ReaderPcs == {"bench_start", "plot", "final_plot"}

\* C9: whenever result files are read, by the cache check or by plot(), in
\* this run or in a later one, no result path holds an empty (created, not
\* yet written) file.
AtomicRecordVisibility ==
    pc \in ReaderPcs => \A p \in Pairs : fs[p] # Empty

(* ------------------------------- C10 ----------------------------------- *)

RECURSIVE SumSamples(_, _)
SumSamples(fsys, S) ==
    IF S = {} THEN 0
    ELSE LET p == CHOOSE q \in S : TRUE
         IN Len(fsys[p].results[1].times) + SumSamples(fsys, S \ {p})

\* C10: the rows of the plot() of a run that returned Ok: as many as the
\* samples of all Success records plus the Failure records on disk; one row
\* without a time per Failure record, and for every Success record as many
\* rows with a time as it has samples.
AggregationCompleteness ==
    pc = "done" =>
        LET K == {p \in Pairs : IsSuccess(fs[p])}
            F == {p \in Pairs : IsFailure(fs[p])}
            Rows(p, timed) ==
                {i \in DOMAIN plotdata :
                    /\ plotdata[i].git_sha = p[2]
                    /\ Sha256Hex(plotdata[i].command) = p[1]
                    /\ (plotdata[i].time # None) = timed}
        IN /\ Len(plotdata) = SumSamples(fs, K) + Cardinality(F)
           /\ \A p \in F : Cardinality(Rows(p, FALSE)) = 1 /\ Rows(p, TRUE) = {}
           /\ \A p \in K : /\ Cardinality(Rows(p, TRUE)) = Len(fs[p].results[1].times)
                           /\ Rows(p, FALSE) = {}

\* plot() has run over Success records of different sizes, a Failure record
\* and an empty file
AggregationCompletenessWitness ==
    /\ pc = "done"
    /\ \E p \in Pairs : IsFailure(fs[p])
    /\ \E p \in Pairs : IsSuccess(fs[p]) /\ Len(fs[p].results[1].times) = 1
    /\ \E p \in Pairs : IsSuccess(fs[p]) /\ Len(fs[p].results[1].times) = MaxSamples
    /\ \E p \in Pairs : fs[p] = Empty
    /\ Len(plotdata) = MaxSamples + 2

(* ------------------------------- C11 ----------------------------------- *)

\* the result files that deserialize
Readable(fsys) ==
    [p \in Pairs |-> IF fsys[p].kind = "json" THEN fsys[p] ELSE Absent]

\* C11: plot() never returns the error of a file that does not deserialize,
\* and the rows of the plot() of a run that returned Ok have no row of such a
\* file and are the rows of the other result files.
CorruptEntriesSkipped ==
    /\ pc = "failed" => err[2] # "deserialize"
    /\ pc = "done" =>
        /\ plotdata = PlotRows(Readable(fs))
        /\ \A p \in Pairs : fs[p] = Empty =>
            \A i \in DOMAIN plotdata :
                ~(plotdata[i].git_sha = p[2] /\ Sha256Hex(plotdata[i].command) = p[1])

\* a run has returned Ok with an empty result file and other records on disk
CorruptEntriesSkippedWitness ==
    /\ pc = "done"
    /\ \E p \in Pairs : fs[p] = Empty
    /\ plotdata # <<>>
    /\ html

(* ------------------------------- C12 ----------------------------------- *)

\* min(n, L) for num_commits = n and L revisions listed, L when unset
Cap ==
    IF cfg.num_commits = None THEN NumRevs
    ELSE IF cfg.num_commits[1] < NumRevs THEN cfg.num_commits[1] ELSE NumRevs

FirstRevs(k) == {RevList[i] : i \in 1..k}

\* the pcs inside the outer loop, after the checkout of the revision
InnerPcs == {"bench_start", "prepare", "hyperfine", "failure_meta", "create", "write", "plot"}

\* C12: the revisions checked out are at any time the first ones of the
\* list, in list order, up to the one the loop is at, never beyond the first
\* min(n, L), and all of these when run() returns Ok; a preparation command
\* or hyperfine is spawned, and a result file exists, only for these.
RevisionCap ==
    /\ pc = "checkout" => (ri <= Cap /\ Sha = RevList[ri] /\ visited = FirstRevs(ri - 1))
    /\ pc \in InnerPcs => (ri <= Cap /\ Sha = RevList[ri] /\ visited = FirstRevs(ri))
    /\ visited \subseteq FirstRevs(Cap)
    /\ pc = "done" => visited = FirstRevs(Cap)
    /\ \A p \in Invoked : p[2] \in FirstRevs(Cap)
    /\ \A p \in Pairs : fs[p] # Absent => p[2] \in FirstRevs(Cap)

\* a run with num_commits = 1 and more revisions listed has returned Ok
\* having measured the first revision only
RevisionCapWitness ==
    /\ pc = "done"
    /\ cfg.num_commits = Some(1)
    /\ NumRevs > 1
    /\ visited = {RevList[1]}
    /\ benchInv # {}
    /\ \A p \in Pairs : fs[p] # Absent <=> (p \in ProcPairs)

\* a run with num_commits above the number of revisions has processed them all
RevisionCapAboveWitness ==
    /\ pc = "done"
    /\ cfg.num_commits = Some(NumRevs + 1)
    /\ visited = Revs

(* ------------------------------- C13 ----------------------------------- *)

\* C13: whenever a preparation command or hyperfine is about to run for a
\* pair (benchmark, revision r) the working directory is checked out at r,
\* and every result file this run has written under r's name was written
\* with the working directory at r.  Violated: checkout() waits for
\* `git checkout` and drops its exit status, so after a non-zero exit the
\* loop measures whatever was checked out before.
MeasurementIsolation ==
    pc \in InvokePcs => workdir = Sha

(* ------------------------------- C14 ----------------------------------- *)

\* C14: the preparation commands of a pair run in configured order: the
\* first one right after the cache check missed, the next one only after
\* the one before it exited zero; hyperfine is started only after the cache
\* check missed and every preparation command exited zero; and while a
\* preparation command or hyperfine is about to run no preparation command
\* of the pair has failed, so that after the first failure neither runs
\* again for the pair.
PreparationGates ==
    [][ /\ pc \in InvokePcs => (caught = NoErr /\ ~is_file(Cur))
        /\ pc = "prepare" => pk \in 1..Len(cfg.prepare)
        /\ (pc' = "prepare" /\ pc # "prepare") => (pc = "bench_start" /\ pk' = 1)
        /\ (pc' = "prepare" /\ pc = "prepare") => (pk' = pk + 1 /\ success')
        /\ pc' = "hyperfine" =>
              IF Len(cfg.prepare) = 0 THEN pc = "bench_start"
              ELSE pc = "prepare" /\ pk = Len(cfg.prepare) /\ success'
        /\ (pc = "prepare" /\ ~success') => pc' \notin InvokePcs
        /\ pc \notin InvokePcs => (prepInv' \subseteq prepInv /\ benchInv' \subseteq benchInv)
      ]_vars

\* the second preparation command exited non-zero after the first exited
\* zero: the Failure record is written and hyperfine was not run
PreparationGatesWitness ==
    /\ pc = "plot"
    /\ Len(cfg.prepare) = 2
    /\ pk = 2
    /\ caught = <<"prepare", "nonzero">>
    /\ Cur \in prepInv
    /\ Cur \notin benchInv
    /\ IsFailure(fs[Cur])

\* both preparation commands exited zero and hyperfine is about to run
PreparationPassedWitness ==
    /\ pc = "hyperfine"
    /\ Len(cfg.prepare) = 2
    /\ pk = 3
    /\ prepZero
    /\ Cur \in prepInv

(* ------------------------------- C15 ----------------------------------- *)

\* C15: when run() returns Ok having started with no result file, every
\* pair of a processed revision and a configured benchmark has one result
\* file, a Success record if hyperfine exited zero for the pair and a
\* Failure record otherwise, and no other pair has a result file.
SweepCompleteness ==
    (pc = "done" /\ startFs = EmptyCache) =>
        \A p \in Pairs :
            IF p \in ProcPairs
            THEN IF p \in benchZero THEN IsSuccess(fs[p]) ELSE IsFailure(fs[p])
            ELSE fs[p] = Absent

\* such a run, with a pair measured, a pair failed and a pair not processed
SweepCompletenessWitness ==
    /\ pc = "done"
    /\ startFs = EmptyCache
    /\ \E p \in ProcPairs : p \in benchZero /\ IsSuccess(fs[p])
    /\ \E p \in ProcPairs : p \notin benchZero /\ IsFailure(fs[p])
    /\ Pairs \ ProcPairs # {}

(* ------------------------------- C16 ----------------------------------- *)

\* C16: run() returns Ok only by a plot() that returns Ok after the loops,
\* with no result file written after it, so that when run() has returned Ok
\* index.html is written and the rows are those of every result file on
\* disk; this holds as well when the loop ran over no revision.
FinalAggregation ==
    [][ /\ pc' = "done" =>
              (pc = "final_plot" /\ fs' = fs /\ html' /\ plotdata' = PlotRows(fs))
        /\ pc = "done" => (html /\ plotdata = PlotRows(fs))
      ]_vars

\* run() has returned Ok after a sweep that wrote result files
FinalAggregationWitness ==
    /\ pc = "done"
    /\ \E p \in ProcPairs : startFs[p] = Absent /\ fs[p] # Absent
    /\ plotdata = PlotRows(fs)
    /\ plotdata # <<>>
    /\ html

\* run() has returned Ok with num_commits = 0: index.html is written
FinalAggregationZeroWitness ==
    /\ pc = "done"
    /\ cfg.num_commits = Some(0)
    /\ commits = <<>>
    /\ html

(* ------------------------------- C17 ----------------------------------- *)

\* C17: an Err of the plot() called inside the loop does not end run(): the
\* loop goes on with the next pair.  Violated: `self.plot(&out_dir)?`
\* returns the error.
InLoopPlotErrorContained ==
    [][pc = "plot" => pc' \in {AfterPlot, "killed"}]_vars

\* C17 (amended): the plot() inside the loop either returns Ok, with
\* index.html written from every result file, and the loop goes on, or its
\* error is the error run() returns at once, no file written and nothing
\* spawned for any later pair; the loop is past its first pair only with
\* index.html written.
InLoopPlotErrorAborts ==
    [][ /\ pc = "plot" =>
              \/ pc' = AfterPlot /\ err' = NoErr /\ html' /\ plotdata' = PlotRows(fs)
              \/ /\ pc' = "failed"
                 /\ err'[1] = "plot"
                 /\ fs' = fs
                 /\ Invoked' = Invoked
              \/ pc' = "killed"
        /\ pc = "failed" => (pc' = "clone_repo" /\ fs' = fs)
        /\ (pc \in {"bench_start", "checkout"} /\ (ri > 1 \/ bi > 1)) => html
      ]_vars

\* run() has returned the error of the plot() inside the loop with pairs
\* left without a result file
InLoopPlotErrorAbortsWitness ==
    /\ pc = "failed"
    /\ err[1] = "plot"
    /\ Invoked # {}
    /\ \E p \in ProcPairs : fs[p] = Absent

(* ------------------------------- C18 ----------------------------------- *)

\* C18: no step of the program removes a result file or a benchmark
\* directory: the pairs that have a result file only grow, over any sequence
\* of runs, completed, failed or killed; and plot(), inside the loop or
\* after it, leaves every result file and directory as it is, writing
\* index.html only.
AppendOnlyCache ==
    [][ /\ \A p \in Pairs : fs[p] # Absent => fs'[p] # Absent
        /\ dirs \subseteq dirs'
        /\ outDir => outDir'
        /\ pc \in {"plot", "final_plot"} => (fs' = fs /\ dirs' = dirs /\ outDir' = outDir)
      ]_vars

\* a second run has returned Ok over a cache that holds a Success record, a
\* Failure record and a file that does not deserialize: all are still there
AppendOnlyCacheWitness ==
    /\ pc = "done"
    /\ prevEnd # "none"
    /\ html
    /\ startFs = fs
    /\ \E p \in Pairs : fs[p] = Empty
    /\ \E p \in Pairs : IsSuccess(fs[p])
    /\ \E p \in Pairs : IsFailure(fs[p])

(* ------------------------------- C19 ----------------------------------- *)

\* C19: two commands have the same benchmark directory exactly when they are
\* the same string; a step changes no result file but the one of the
\* current pair; every result file with a record holds the record of the
\* command its directory is named after; and a preparation command or
\* hyperfine is started at most once for a pair in a run, the later
\* occurrences of a command listed twice finding the result file.
CacheKeyDeterminism ==
    [][ /\ \A a, b \in BenchCmds : (Sha256Hex(a) = Sha256Hex(b)) <=> (a = b)
        /\ \A p \in Pairs : fs'[p] # fs[p] => (p = Cur /\ p[1] = Sha256Hex(Bench))
        /\ \A p \in Pairs :
              fs[p].kind = "json" => Sha256Hex(fs[p].results[1].command) = p[1]
        /\ (pc = "bench_start" /\ pc' \in InvokePcs) => Cur \notin Invoked
        /\ (pc = "bench_start" /\ Cur \in Invoked) => pc' \in {"plot", "failed", "killed"}
      ]_vars

\* the second occurrence of a command listed twice was a cache hit on the
\* result file the first occurrence left in this run
CacheKeyDeterminismWitness ==
    /\ pc = "plot"
    /\ cfg.benchmarks = <<"b1", "b1">>
    /\ bi = 2
    /\ startFs[Cur] = Absent
    /\ Cur \in benchInv
    /\ fs[Cur] # Absent
    /\ success

====
